---------------------------- MODULE Spec2Model ----------------------------
(* Model of src/src/pages/DashboardOverview.tsx: the DashboardOverview     *)
(* component's six useState cells, the loadStats effect (five fetches      *)
(* joined by Promise.all, try/catch/finally) and the values every render   *)
(* derives from the stored state.                                          *)
(*                                                                         *)
(* JavaScript values are represented as follows.                           *)
(*   - undefined is the string Undefined; booleans are "true" / "false".   *)
(*   - a string holding a calendar date "YYYY-MM-DD" is the tuple          *)
(*     <<YYYY, MM, DD>> of its three fixed-width digit fields; the empty   *)
(*     string is <<>>.  Comparing such strings character by character is   *)
(*     comparing the tuples field by field.                                *)
(*   - an optional string is None or Some(s).                              *)
(*   - a Date is the number of its calendar day; Invalid Date is           *)
(*     InvalidDate.                                                        *)
EXTENDS Integers, Sequences, FiniteSets, TLC

VARIABLES
    fetchState,       \* state of each of the five promises of lines 74-78
    fetchValue,       \* the array each fulfilled promise carries
    allState,         \* state of the Promise.all promise of line 73
    allReason,        \* rejection reason of the Promise.all promise
    pc,               \* position of loadStats: "await" (line 73) or "done"
    errorLog,         \* what console.error has written (line 86)
    dozentenCount,    \* useState, line 63
    teilnehmerCount,  \* useState, line 64
    raeumeCount,      \* useState, line 65
    kurse,            \* useState, line 66
    anmeldungen,      \* useState, line 67
    loading,          \* useState, line 68
    today,            \* startOfToday(), line 94
    view              \* what the last render produced (lines 94-294)

vars == <<fetchState, fetchValue, allState, allReason, pc, errorLog,
          dozentenCount, teilnehmerCount, raeumeCount, kurse, anmeldungen,
          loading, today, view>>

-----------------------------------------------------------------------------
(* Bounds of the model.                                                    *)

\* longest course collection drawn from the full pool of course kinds
MaxKurseFull == 2
\* longest course collection drawn from the pool of listed courses
MaxKurse == 6
\* longest registration collection with arbitrary flags
MaxAnmeldungenFull == 4
\* longest registration collection of the form paid..., unpaid...
MaxAnmeldungen == 40
\* longest instructor / participant / room collection
MaxEntities == 1

-----------------------------------------------------------------------------
(* JavaScript values.                                                      *)

Undefined == "undefined"

None == [some |-> FALSE, val |-> <<>>]

Some(s) == [some |-> TRUE, val |-> s]

\* ToBoolean of an optional string: undefined and '' are falsy
TruthyString(o) == o.some /\ o.val # <<>>

\* ToBoolean of an optional boolean
TruthyFlag(b) == b = "true"

\* o ?? ''
OrEmpty(o) == IF o.some THEN o.val ELSE <<>>

Min(a, b) == IF a < b THEN a ELSE b

\* Array.prototype.slice(0, n)
SliceFrom0(s, n) == SubSeq(s, 1, Min(n, Len(s)))

-----------------------------------------------------------------------------
(* Dates: date-fns parseISO, isAfter and String.prototype.localeCompare.   *)

InvalidDate == 0 - 1

IsLeap(y) == (y % 4 = 0 /\ y % 100 # 0) \/ y % 400 = 0

DaysInMonth(y, m) ==
    IF m = 2 THEN (IF IsLeap(y) THEN 29 ELSE 28)
    ELSE IF m \in {4, 6, 9, 11} THEN 30 ELSE 31

RECURSIVE DaysBeforeMonth(_, _)
DaysBeforeMonth(y, m) ==
    IF m <= 1 THEN 0 ELSE DaysInMonth(y, m - 1) + DaysBeforeMonth(y, m - 1)

\* the calendar day of year y, month m, day d, counted from 0001-01-01
DayNumber(y, m, d) ==
    365 * (y - 1) + ((y - 1) \div 4) - ((y - 1) \div 100) + ((y - 1) \div 400)
      + DaysBeforeMonth(y, m) + d

\* parseISO of a date-only string: local midnight of that day, or Invalid
\* Date when the string is no calendar date
parseISO(s) ==
    IF Len(s) # 3 THEN InvalidDate
    ELSE IF s[2] < 1 \/ s[2] > 12 THEN InvalidDate
    ELSE IF s[3] < 1 \/ s[3] > DaysInMonth(s[1], s[2]) THEN InvalidDate
    ELSE DayNumber(s[1], s[2], s[3])

\* isAfter(date, dateToCompare): a comparison with Invalid Date is false
isAfter(a, b) == a # InvalidDate /\ b # InvalidDate /\ a > b

\* a.localeCompare(b) on strings of digit fields: negative, zero or positive
RECURSIVE localeCompare(_, _)
localeCompare(a, b) ==
    IF a = <<>> /\ b = <<>> THEN 0
    ELSE IF a = <<>> THEN 0 - 1
    ELSE IF b = <<>> THEN 1
    ELSE IF Head(a) < Head(b) THEN 0 - 1
    ELSE IF Head(a) > Head(b) THEN 1
    ELSE localeCompare(Tail(a), Tail(b))

-----------------------------------------------------------------------------
(* Derived values of a render, lines 94-116.                               *)

\* CountStatus comparing without regard to case
CountStatusAnyCase(ks, status) ==
    Len(SelectSeq(ks, LAMBDA k : k.status = status
                                   \/ (status = "aktiv" /\ k.status = "Aktiv")))

\* kurse.filter(k => k.fields.status === status).length
CountStatus(ks, status) == Len(SelectSeq(ks, LAMBDA k : k.status = status))

\* lines 101-106
StatusBuckets(ks) ==
    << [name |-> "Geplant",       value |-> CountStatus(ks, "geplant")],
       [name |-> "Aktiv",         value |-> CountStatus(ks, "aktiv")],
       [name |-> "Abgeschlossen", value |-> CountStatus(ks, "abgeschlossen")],
       [name |-> "Abgesagt",      value |-> CountStatus(ks, "abgesagt")] >>

\* statusData without the filter of line 106
statusDataUnfiltered(ks) == StatusBuckets(ks)

statusData(ks) == SelectSeq(StatusBuckets(ks), LAMBDA d : d.value > 0)

\* UpcomingFilter with a start today counted as upcoming
UpcomingFilterFromToday(k, asOf) ==
    IF ~TruthyString(k.startdatum) THEN FALSE
    ELSE isAfter(parseISO(k.startdatum.val), asOf - 1) \/ k.status = "geplant"

\* the callback of the filter of lines 110-114
UpcomingFilter(k, asOf) ==
    IF ~TruthyString(k.startdatum) THEN FALSE
    ELSE isAfter(parseISO(k.startdatum.val), asOf) \/ k.status = "geplant"

\* the comparator of line 115
UpcomingCompare(a, b) ==
    localeCompare(OrEmpty(a.startdatum), OrEmpty(b.startdatum))

\* one insertion of a stable sort: x goes behind every element that does
\* not compare greater than it
RECURSIVE InsertStable(_, _)
InsertStable(x, s) ==
    IF s = <<>> THEN <<x>>
    ELSE IF UpcomingCompare(Head(s), x) <= 0
         THEN <<Head(s)>> \o InsertStable(x, Tail(s))
         ELSE <<x>> \o s

\* Array.prototype.sort with the comparator of line 115 (stable, ES2019)
RECURSIVE SortUpcoming(_)
SortUpcoming(s) ==
    IF s = <<>> THEN <<>>
    ELSE InsertStable(s[Len(s)], SortUpcoming(SubSeq(s, 1, Len(s) - 1)))

UpcomingLimit == 5

UpcomingFiltered(ks, asOf) == SelectSeq(ks, LAMBDA k : UpcomingFilter(k, asOf))

\* UpcomingSlice keeping the last entries instead of the first
UpcomingSliceLast(s) == SubSeq(s, Len(s) - Min(UpcomingLimit, Len(s)) + 1, Len(s))

UpcomingSlice(s) == SliceFrom0(s, UpcomingLimit)

\* lines 109-116
upcomingKurse(ks, asOf) == UpcomingSlice(SortUpcoming(UpcomingFiltered(ks, asOf)))

\* line 97
bezahltCount(as) == Len(SelectSeq(as, LAMBDA a : a.bezahlt = "true"))

\* offenCount counting only a flag that is exactly false
offenCountOnlyFalse(as) == Len(SelectSeq(as, LAMBDA a : a.bezahlt = "false"))

\* line 98
offenCount(as) == Len(SelectSeq(as, LAMBDA a : ~TruthyFlag(a.bezahlt)))

-----------------------------------------------------------------------------
(* IEEE 754 binary64 arithmetic of line 286.  A positive double is         *)
(* [zero |-> FALSE, m |-> its 53 significand bits, first bit 1, e |-> its  *)
(* exponent]: the number 1.m[2]m[3]...m[53] * 2^e.  Significands are bit   *)
(* sequences, most significant bit first.                                  *)

SignificandBits == 53

DoubleZero == [zero |-> TRUE, m |-> <<>>, e |-> 0]

BitsOfNat[n \in Nat] == IF n = 0 THEN <<>> ELSE BitsOfNat[n \div 2] \o <<n % 2>>

NatOfBits[b \in Seq({0, 1})] ==
    IF b = <<>> THEN 0
    ELSE 2 * NatOfBits[SubSeq(b, 1, Len(b) - 1)] + b[Len(b)]

\* b + 1, one bit longer when every bit of b is 1
IncrementBits[b \in Seq({0, 1})] ==
    IF b = <<>> THEN <<1>>
    ELSE IF b[Len(b)] = 0 THEN SubSeq(b, 1, Len(b) - 1) \o <<1>>
    ELSE IncrementBits[SubSeq(b, 1, Len(b) - 1)] \o <<0>>

\* b * c + carry, for a small natural c
MultiplyBits[b \in Seq({0, 1}), c \in Nat, carry \in Nat] ==
    IF b = <<>> THEN BitsOfNat[carry]
    ELSE MultiplyBits[SubSeq(b, 1, Len(b) - 1), c,
                      (b[Len(b)] * c + carry) \div 2]
           \o <<(b[Len(b)] * c + carry) % 2>>

\* the first n binary digits of r / t behind the point (0 <= r < t),
\* followed by the remainder left after them
DivideDigits[r \in Nat, t \in Nat, n \in Nat] ==
    IF n = 0 THEN <<r>>
    ELSE IF 2 * r >= t THEN <<1>> \o DivideDigits[2 * r - t, t, n - 1]
         ELSE <<0>> \o DivideDigits[2 * r, t, n - 1]

\* the least k with p * 2^k >= t, for 0 < p
LeadingShift[p \in Nat, t \in Nat] ==
    IF p >= t THEN 0 ELSE 1 + LeadingShift[2 * p, t]

Pow2[k \in Nat] == IF k = 0 THEN 1 ELSE 2 * Pow2[k - 1]

\* round to nearest, ties to even: b holds the exact significand, at least
\* SignificandBits + 1 bits, first bit 1; more says that nonzero digits
\* follow b; e is the exponent of b's first bit
RoundToDouble(b, more, e) ==
    LET top    == SubSeq(b, 1, SignificandBits)
        guard  == b[SignificandBits + 1]
        sticky == more \/ \E i \in (SignificandBits + 2)..Len(b) : b[i] = 1
        up     == guard = 1 /\ (sticky \/ top[SignificandBits] = 1)
        inc    == IncrementBits[top]
    IN  IF ~up THEN [zero |-> FALSE, m |-> top, e |-> e]
        ELSE IF Len(inc) > SignificandBits
             THEN [zero |-> FALSE, m |-> SubSeq(inc, 1, SignificandBits), e |-> e + 1]
             ELSE [zero |-> FALSE, m |-> inc, e |-> e]

\* the double p / t of two small naturals, 0 <= p <= t, 0 < t
DoubleDivide(p, t) ==
    IF p = 0 THEN DoubleZero
    ELSE LET k      == LeadingShift[p, t]
             digits == DivideDigits[p * Pow2[k] - t, t, SignificandBits]
         IN  RoundToDouble(<<1>> \o SubSeq(digits, 1, SignificandBits),
                           digits[SignificandBits + 1] # 0, 0 - k)

\* the double x * c for a small natural c > 1
DoubleTimes(x, c) ==
    IF x.zero THEN DoubleZero
    ELSE LET product == MultiplyBits[x.m, c, 0]
         IN  RoundToDouble(product, FALSE, x.e + Len(product) - SignificandBits)

\* Math.round of a double 0 <= x < 2^52: the nearest integer, a half going up
MathRound(x) ==
    IF x.zero \/ x.e < 0 - 1 THEN 0
    ELSE IF x.e = 0 - 1 THEN 1
    ELSE NatOfBits[SubSeq(x.m, 1, x.e + 1)] + x.m[x.e + 2]

\* line 286: Math.round((bezahltCount / anmeldungen.length) * 100)
RoundedPercent[paid \in Nat, total \in Nat] ==
    MathRound(DoubleTimes(DoubleDivide(paid, total), 100))

Zahlungsquote(paid, total) == RoundedPercent[paid, total]

-----------------------------------------------------------------------------
(* The render, lines 94-294: the derived values and which branch of each   *)
(* conditional section is shown.  A text that is either a number or the    *)
(* dash placeholder is <<n>> or <<>>.                                      *)

NoKurseMessage == "Noch keine Kurse angelegt"

BarChart == "BarChart"

NoUpcomingMessage == "Keine kommenden Kurse"

UpcomingList == "list"

\* loading ? '—' : n, lines 131-184
DashWhile(ld, n) == IF ld THEN <<>> ELSE <<n>>

\* startOfToday(), line 94: local midnight of the clock's calendar day
startOfToday(clock) == DayNumber(clock[1], clock[2], clock[3])

\* StatusPanel deciding by the chart data instead of the course count
StatusPanelByData(ks, ld) ==
    IF Len(statusData(ks)) = 0 /\ ~ld THEN NoKurseMessage ELSE BarChart

\* lines 198-219
StatusPanel(ks, ld) == IF Len(ks) = 0 /\ ~ld THEN NoKurseMessage ELSE BarChart

\* lines 231-254
UpcomingPanel(up, ld) ==
    IF Len(up) = 0 /\ ~ld THEN NoUpcomingMessage ELSE UpcomingList

\* lines 259-293: the section is rendered only for a non-empty collection
PaymentSummary(as) ==
    IF Len(as) > 0
    THEN << [bezahlt       |-> bezahltCount(as),
             offen         |-> offenCount(as),
             zahlungsquote |-> IF Len(as) > 0
                               THEN <<Zahlungsquote(bezahltCount(as), Len(as))>>
                               ELSE <<>>] >>
    ELSE <<>>

Render(dc, tc, rc, ks, as, ld, clock) ==
    [ kurseGesamt       |-> DashWhile(ld, Len(ks)),
      anmeldungenGesamt |-> DashWhile(ld, Len(as)),
      dozenten          |-> DashWhile(ld, dc),
      teilnehmer        |-> DashWhile(ld, tc),
      raeume            |-> DashWhile(ld, rc),
      aktiveKurse       |-> CountStatus(ks, "aktiv"),
      geplanteKurse     |-> CountStatus(ks, "geplant"),
      bezahltCount      |-> bezahltCount(as),
      offenCount        |-> offenCount(as),
      statusData        |-> statusData(ks),
      statusPanel       |-> StatusPanel(ks, ld),
      upcomingKurse     |-> upcomingKurse(ks, startOfToday(clock)),
      upcomingPanel     |-> UpcomingPanel(upcomingKurse(ks, startOfToday(clock)), ld),
      paymentSummary    |-> PaymentSummary(as) ]

-----------------------------------------------------------------------------
(* The load, lines 70-92.                                                  *)

Fetches == {"getDozenten", "getTeilnehmer", "getRaeume", "getKurse",
            "getAnmeldungen"}

\* PromiseAll that ignores a rejection
PromiseAllIgnoringRejection(fs, current) ==
    IF current # "pending" THEN current
    ELSE IF \A f \in Fetches : fs[f] = "fulfilled" THEN "fulfilled"
    ELSE "pending"

\* the Promise.all of lines 73-79: rejected with the first rejection,
\* fulfilled once every promise is fulfilled, settled once
PromiseAll(fs, current) ==
    IF current # "pending" THEN current
    ELSE IF \E f \in Fetches : fs[f] = "rejected" THEN "rejected"
    ELSE IF \A f \in Fetches : fs[f] = "fulfilled" THEN "fulfilled"
    ELSE "pending"

\* LoadStatsStore that stores, on a rejection, what was fulfilled
LoadStatsStoreSettled(fs, fv, outcome, old) ==
    [ dozentenCount   |-> IF fs["getDozenten"] = "fulfilled"
                          THEN Len(fv["getDozenten"]) ELSE old.dozentenCount,
      teilnehmerCount |-> IF fs["getTeilnehmer"] = "fulfilled"
                          THEN Len(fv["getTeilnehmer"]) ELSE old.teilnehmerCount,
      raeumeCount     |-> IF fs["getRaeume"] = "fulfilled"
                          THEN Len(fv["getRaeume"]) ELSE old.raeumeCount,
      kurse           |-> IF fs["getKurse"] = "fulfilled"
                          THEN fv["getKurse"] ELSE old.kurse,
      anmeldungen     |-> IF fs["getAnmeldungen"] = "fulfilled"
                          THEN fv["getAnmeldungen"] ELSE old.anmeldungen ]

\* the five cells after the await: lines 80-84 when the Promise.all promise
\* is fulfilled, untouched when it is rejected (the catch of line 85)
LoadStatsStore(fs, fv, outcome, old) ==
    IF outcome = "fulfilled"
    THEN [ dozentenCount   |-> Len(fv["getDozenten"]),
           teilnehmerCount |-> Len(fv["getTeilnehmer"]),
           raeumeCount     |-> Len(fv["getRaeume"]),
           kurse           |-> fv["getKurse"],
           anmeldungen     |-> fv["getAnmeldungen"] ]
    ELSE old

\* line 86
LoadStatsLog(outcome, reason, log) ==
    IF outcome = "rejected"
    THEN Append(log, <<"Failed to load stats:", reason>>)
    ELSE log

\* LoadStatsLoading with setLoading(false) at the end of the try block
LoadStatsLoadingInTry(outcome, ld) == IF outcome = "fulfilled" THEN FALSE ELSE ld

\* the finally of lines 87-89
LoadStatsLoading(outcome, ld) == FALSE

Stored == [ dozentenCount   |-> dozentenCount,
            teilnehmerCount |-> teilnehmerCount,
            raeumeCount     |-> raeumeCount,
            kurse           |-> kurse,
            anmeldungen     |-> anmeldungen ]

\* lines 63-67
InitialStored == [ dozentenCount   |-> 0,
                   teilnehmerCount |-> 0,
                   raeumeCount     |-> 0,
                   kurse           |-> <<>>,
                   anmeldungen     |-> <<>> ]

\* the inputs: what the five services return, and the calendar day

Statuses == {"geplant", "aktiv", "abgeschlossen", "abgesagt", "Aktiv", Undefined}

StartStrings == { None, Some(<<>>), Some(<<2024, 5, 1>>), Some(<<2024, 6, 1>>),
                  Some(<<2024, 7, 1>>), Some(<<2024, 2, 30>>) }

KursKinds == [status : Statuses, startdatum : StartStrings]

ListedKinds == { [status |-> "aktiv",    startdatum |-> Some(<<2025, 1, 15>>)],
                 [status |-> "aktiv",    startdatum |-> Some(<<2024, 7, 1>>)],
                 [status |-> "geplant",  startdatum |-> Some(<<2024, 5, 1>>)],
                 [status |-> "abgesagt", startdatum |-> Some(<<2024, 7, 1>>)] }

Bezahlt == {"true", "false", Undefined}

Clocks == { <<2024, 6, 1>>, <<2024, 12, 31>> }

SeqsUpTo(S, n) == UNION { [1..m -> S] : m \in 0..n }

\* records as the service returns them: record_id is unique
WithIds(s) == [i \in 1..Len(s) |-> [record_id |-> i] @@ s[i]]

KurseInputs ==
    { WithIds(s) : s \in SeqsUpTo(KursKinds, MaxKurseFull)
                         \cup SeqsUpTo(ListedKinds, MaxKurse) }

\* n registrations of which the first p are paid
PaidThenOpen(p, n) ==
    [i \in 1..n |-> [record_id |-> i, bezahlt |-> IF i <= p THEN "true" ELSE "false"]]

AnmeldungenInputs ==
    { WithIds([i \in 1..Len(s) |-> [bezahlt |-> s[i]]]) :
          s \in SeqsUpTo(Bezahlt, MaxAnmeldungenFull) }
      \cup UNION { { PaidThenOpen(p, n) : p \in 0..n } : n \in 0..MaxAnmeldungen }

EntityInputs == { [i \in 1..n |-> [record_id |-> i]] : n \in 0..MaxEntities }

FetchResults(f) ==
    IF f = "getKurse"
    THEN { WithIds(s) : s \in SeqsUpTo({ [status |-> "aktiv", startdatum |-> Some(<<2024, 7, 1>>)] }, MaxEntities) }
    ELSE IF f = "getAnmeldungen"
    THEN { PaidThenOpen(n, n) : n \in 0..MaxEntities }
    ELSE EntityInputs

\* the component after its first render and its effect: every cell holds
\* its initial value and loadStats waits at line 73
Mounted(clock) ==
    /\ pc = "await"
    /\ allReason = Undefined
    /\ errorLog = <<>>
    /\ dozentenCount = 0
    /\ teilnehmerCount = 0
    /\ raeumeCount = 0
    /\ kurse = <<>>
    /\ anmeldungen = <<>>
    /\ loading = TRUE
    /\ today = clock
    /\ view = Render(0, 0, 0, <<>>, <<>>, TRUE, clock)

Init ==
    /\ fetchState = [f \in Fetches |-> "pending"]
    /\ fetchValue = [f \in Fetches |-> <<>>]
    /\ allState = "pending"
    /\ Mounted(<<2024, 6, 1>>)

\* a promise of lines 74-78 is fulfilled with the array v
Resolve(f, v) ==
    /\ fetchState[f] = "pending"
    /\ fetchState' = [fetchState EXCEPT ![f] = "fulfilled"]
    /\ fetchValue' = [fetchValue EXCEPT ![f] = v]
    /\ allState' = PromiseAll(fetchState', allState)
    /\ UNCHANGED <<allReason, pc, errorLog, dozentenCount, teilnehmerCount,
                   raeumeCount, kurse, anmeldungen, loading, today, view>>

\* a promise of lines 74-78 is rejected
Reject(f) ==
    /\ fetchState[f] = "pending"
    /\ fetchState' = [fetchState EXCEPT ![f] = "rejected"]
    /\ allState' = PromiseAll(fetchState', allState)
    /\ allReason' = IF allState = "pending" THEN f ELSE allReason
    /\ UNCHANGED <<fetchValue, pc, errorLog, dozentenCount, teilnehmerCount,
                   raeumeCount, kurse, anmeldungen, loading, today, view>>

\* loadStats resumes behind the await of line 73 and runs to its end: the
\* setters of lines 80-84 or the catch, then the finally; React commits the
\* batched updates and renders
LoadStatsResume ==
    /\ pc = "await"
    /\ allState # "pending"
    /\ LET next == LoadStatsStore(fetchState, fetchValue, allState, Stored)
           ld   == LoadStatsLoading(allState, loading)
       IN  /\ dozentenCount' = next.dozentenCount
           /\ teilnehmerCount' = next.teilnehmerCount
           /\ raeumeCount' = next.raeumeCount
           /\ kurse' = next.kurse
           /\ anmeldungen' = next.anmeldungen
           /\ loading' = ld
           /\ view' = Render(next.dozentenCount, next.teilnehmerCount,
                             next.raeumeCount, next.kurse, next.anmeldungen,
                             ld, today)
    /\ errorLog' = LoadStatsLog(allState, allReason, errorLog)
    /\ pc' = "done"
    /\ UNCHANGED <<fetchState, fetchValue, allState, allReason, today>>

Next ==
    \/ \E f \in Fetches : \E v \in FetchResults(f) : Resolve(f, v)
    \/ \E f \in Fetches : Reject(f)
    \/ LoadStatsResume

Spec == Init /\ [][Next]_vars

\* the resumption of loadStats is a microtask: once the Promise.all promise
\* is settled it runs
FairSpec == Spec /\ WF_vars(LoadStatsResume)

\* every fetch has been fulfilled and loadStats is about to resume
AllFulfilled(doz, teil, raeum, kurs, anm, clock) ==
    /\ fetchState = [f \in Fetches |-> "fulfilled"]
    /\ fetchValue = [f \in Fetches |->
                        IF f = "getDozenten" THEN doz
                        ELSE IF f = "getTeilnehmer" THEN teil
                        ELSE IF f = "getRaeume" THEN raeum
                        ELSE IF f = "getKurse" THEN kurs
                        ELSE anm]
    /\ allState = "fulfilled"
    /\ Mounted(clock)

KurseInit ==
    \E kurs \in KurseInputs : \E clock \in Clocks :
        AllFulfilled(<<>>, <<>>, <<>>, kurs, <<>>, clock)

KurseSpec == KurseInit /\ [][LoadStatsResume]_vars

AnmeldungenInit ==
    \E anm \in AnmeldungenInputs :
        AllFulfilled(<<>>, <<>>, <<>>, <<>>, anm, <<2024, 6, 1>>)

AnmeldungenSpec == AnmeldungenInit /\ [][LoadStatsResume]_vars

-----------------------------------------------------------------------------
(* The properties.                                                         *)

InList(k, s) == \E i \in 1..Len(s) : s[i] = k

\* the course collection holds a course of this status and start string
HasKurs(status, start) ==
    \E i \in 1..Len(kurse) : kurse[i].status = status /\ kurse[i].startdatum = start

\* s is a calendar date later than the calendar day clock
StartsAfter(s, clock) ==
    /\ Len(s) = 3
    /\ s[2] \in 1..12
    /\ s[3] \in 1..DaysInMonth(s[1], s[2])
    /\ \/ s[1] > clock[1]
       \/ s[1] = clock[1] /\ s[2] > clock[2]
       \/ s[1] = clock[1] /\ s[2] = clock[2] /\ s[3] > clock[3]

\* the inclusion predicate as the specification words it
ClaimedUpcoming(k) ==
    \/ k.startdatum.some /\ StartsAfter(k.startdatum.val, today)
    \/ k.status = "geplant"

\* the inclusion predicate with a start date required in both cases
DatedUpcoming(k) ==
    /\ k.startdatum.some
    /\ k.startdatum.val # <<>>
    /\ StartsAfter(k.startdatum.val, today) \/ k.status = "geplant"

Cells == [stored |-> Stored, loading |-> loading]

\* the cells after a load in which every service returned an empty array
CellsAfterEmptyLoad ==
    [ stored  |-> LoadStatsStore([f \in Fetches |-> "fulfilled"],
                                 [f \in Fetches |-> <<>>], "fulfilled",
                                 InitialStored),
      loading |-> LoadStatsLoading("fulfilled", TRUE) ]

LoadFailed == pc = "done" /\ allState = "rejected"

LoadSucceeded == pc = "done" /\ allState = "fulfilled"

\* C2 as claimed: the stored state after a failed load differs from the
\* stored state after a successful load of five empty collections
C2_FailedIsDistinct == LoadFailed => Cells # CellsAfterEmptyLoad

\* C2 amended: a failed load leaves Loading with the five values unchanged
\* and the failure written to the console only; the six cells then equal
\* those after a successful load of five empty collections
C2_FailedOnlyLogged ==
    /\ LoadFailed =>
          /\ loading = FALSE
          /\ Stored = InitialStored
          /\ Cells = CellsAfterEmptyLoad
          /\ errorLog = << <<"Failed to load stats:", allReason>> >>
          /\ fetchState[allReason] = "rejected"
    /\ LoadSucceeded => errorLog = <<>>
    /\ (LoadSucceeded /\ \A f \in Fetches : fetchValue[f] = <<>>)
          => Cells = CellsAfterEmptyLoad

\* a load has failed after another fetch had delivered records
C2_Witness ==
    /\ LoadFailed
    /\ \E f \in Fetches : fetchState[f] = "fulfilled" /\ fetchValue[f] # <<>>

\* every fetch succeeded and the five values are the results of this load
StoredFromOneLoad ==
    /\ \A f \in Fetches : fetchState[f] = "fulfilled"
    /\ dozentenCount = Len(fetchValue["getDozenten"])
    /\ teilnehmerCount = Len(fetchValue["getTeilnehmer"])
    /\ raeumeCount = Len(fetchValue["getRaeume"])
    /\ kurse = fetchValue["getKurse"]
    /\ anmeldungen = fetchValue["getAnmeldungen"]

\* C3: the five values are all initial or all those of a load whose five
\* fetches succeeded; once a fetch has failed they are the initial ones
C3_NoPartialPopulation ==
    /\ Stored = InitialStored \/ StoredFromOneLoad
    /\ (\E f \in Fetches : fetchState[f] = "rejected") => Stored = InitialStored
    /\ LoadSucceeded => StoredFromOneLoad

\* loadStats has finished after one fetch failed and the four others
\* delivered records
C3_Witness ==
    /\ pc = "done"
    /\ \E g \in Fetches :
          /\ fetchState[g] = "rejected"
          /\ \A f \in Fetches \ {g} :
                 fetchState[f] = "fulfilled" /\ fetchValue[f] # <<>>

NumberWith(flags) ==
    Cardinality({ i \in 1..Len(anmeldungen) : anmeldungen[i].bezahlt \in flags })

\* C4: the paid count (flag exactly true) and the outstanding count (flag
\* false or absent) add up to the number of registrations
C4_PaymentCountsPartition ==
    /\ view.bezahltCount = NumberWith({"true"})
    /\ view.offenCount = NumberWith({"false", Undefined})
    /\ view.bezahltCount + view.offenCount = Len(anmeldungen)

\* registrations with a true, a false and an absent flag have been rendered
C4_Witness ==
    /\ pc = "done"
    /\ NumberWith({"true"}) > 0
    /\ NumberWith({"false"}) > 0
    /\ NumberWith({Undefined}) > 0

\* paid / total * 100 rounded to the nearest integer, a half going up
RoundHalfUp(paid, total) == (200 * paid + total) \div (2 * total)

\* C5: for a non-empty collection the rate shown is paidCount / total * 100
\* rounded half up and lies in 0..100; for an empty one no rate is shown
C5_PaymentRate ==
    /\ anmeldungen # <<>> =>
          /\ Len(view.paymentSummary) = 1
          /\ view.paymentSummary[1].zahlungsquote
               = <<RoundHalfUp(NumberWith({"true"}), Len(anmeldungen))>>
          /\ view.paymentSummary[1].zahlungsquote[1] \in 0..100
    /\ anmeldungen = <<>> => view.paymentSummary = <<>>

FixedOrder == <<"Geplant", "Aktiv", "Abgeschlossen", "Abgesagt">>

FixedStatus == <<"geplant", "aktiv", "abgeschlossen", "abgesagt">>

Position(label) == CHOOSE p \in 1..4 : FixedOrder[p] = label

NumberOfStatus(status) ==
    Cardinality({ i \in 1..Len(kurse) : kurse[i].status = status })

\* C6: no bucket has count 0, a bucket's count is the number of courses of
\* exactly its status, and the labels keep the order Geplant, Aktiv,
\* Abgeschlossen, Abgesagt
C6_StatusDistribution ==
    LET sd == view.statusData
    IN  /\ \A i \in 1..Len(sd) :
               /\ sd[i].value > 0
               /\ \E p \in 1..4 : FixedOrder[p] = sd[i].name
               /\ sd[i].value = NumberOfStatus(FixedStatus[Position(sd[i].name)])
        /\ \A i, j \in 1..Len(sd) :
               i < j => Position(sd[i].name) < Position(sd[j].name)

\* courses of three statuses, one of them twice, have been rendered
C6_Witness ==
    /\ pc = "done"
    /\ Len(view.statusData) = 3
    /\ \E i \in 1..3 : view.statusData[i].value > 1
    /\ NumberOfStatus("abgeschlossen") = 0

\* C7 as claimed: once loading has finished, an empty status distribution is
\* shown as the 'no data' message
C7_EmptyDistributionIsNoData ==
    (~loading /\ view.statusData = <<>>) => view.statusPanel = NoKurseMessage

\* C7 amended: once loading has finished, the 'no data' message is shown
\* exactly when there are no courses; courses that all have a missing or
\* unrecognized status get the chart, drawn over an empty distribution
C7_NoDataOnlyWithoutKurse ==
    ~loading =>
        /\ view.statusPanel = NoKurseMessage <=> kurse = <<>>
        /\ view.statusPanel \in {NoKurseMessage, BarChart}
        /\ (kurse # <<>> /\ \A s \in 1..4 : NumberOfStatus(FixedStatus[s]) = 0)
              => view.statusPanel = BarChart /\ view.statusData = <<>>

\* courses with a missing and an unrecognized status have been rendered
C7_Witness ==
    /\ pc = "done"
    /\ ~loading
    /\ NumberOfStatus(Undefined) > 0
    /\ NumberOfStatus("Aktiv") > 0
    /\ view.statusData = <<>>

StartOf(k) == OrEmpty(k.startdatum)

\* order of two start strings, each empty or of three fields
StartBefore(a, b) ==
    IF a = <<>> THEN b # <<>>
    ELSE /\ b # <<>>
         /\ \/ a[1] < b[1]
            \/ a[1] = b[1] /\ a[2] < b[2]
            \/ a[1] = b[1] /\ a[2] = b[2] /\ a[3] < b[3]

\* k comes before l in the sorted filtered set: earlier start, or the same
\* start and earlier in the course collection
RanksBefore(k, l) ==
    \/ StartBefore(StartOf(k), StartOf(l))
    \/ StartOf(k) = StartOf(l) /\ k.record_id < l.record_id

\* C8: the upcoming list has at most 5 entries, is sorted by start date with
\* courses lacking one first, keeps the collection's order among equal start
\* dates, and holds the first 5 of the sorted filtered set
C8_UpcomingOrderAndLimit ==
    LET up  == view.upcomingKurse
        all == UpcomingFiltered(kurse, startOfToday(today))
    IN  /\ Len(up) <= 5
        /\ Len(up) = Min(5, Len(all))
        /\ \A i, j \in 1..Len(up) :
               i < j =>
                  /\ ~StartBefore(StartOf(up[j]), StartOf(up[i]))
                  /\ ~TruthyString(up[j].startdatum) => ~TruthyString(up[i].startdatum)
                  /\ StartOf(up[i]) = StartOf(up[j]) => up[i].record_id < up[j].record_id
        /\ \A i \in 1..Len(up) : InList(up[i], all)
        /\ \A n \in 1..Len(all) :
               ~InList(all[n], up) => \A i \in 1..Len(up) : RanksBefore(up[i], all[n])

\* more than five courses passed the filter; the five listed hold two with
\* the same start date and two with different ones
C8_Witness ==
    /\ pc = "done"
    /\ Len(UpcomingFiltered(kurse, startOfToday(today))) > 5
    /\ Len(view.upcomingKurse) = 5
    /\ StartOf(view.upcomingKurse[1]) = StartOf(view.upcomingKurse[2])
    /\ StartOf(view.upcomingKurse[4]) # StartOf(view.upcomingKurse[5])
    /\ \E i \in 2..Len(kurse) : RanksBefore(kurse[i], kurse[i - 1])

RECURSIVE SumSeq(_)
SumSeq(s) == IF s = <<>> THEN 0 ELSE Head(s) + SumSeq(Tail(s))

BucketSum == SumSeq([i \in 1..Len(view.statusData) |-> view.statusData[i].value])

AllRecognized ==
    \A i \in 1..Len(kurse) : \E s \in 1..4 : kurse[i].status = FixedStatus[s]

\* C9: the bucket counts sum to at most the number of courses, and to
\* exactly that number iff every course has one of the four statuses
C9_BucketSumAtMostKurse ==
    /\ BucketSum <= Len(kurse)
    /\ BucketSum = Len(kurse) <=> AllRecognized

\* a course of a recognized status and one of an unrecognized status have
\* been rendered
C9_Witness ==
    /\ pc = "done"
    /\ NumberOfStatus("Aktiv") > 0
    /\ BucketSum > 0
    /\ BucketSum < Len(kurse)

AllSettled == \A f \in Fetches : fetchState[f] # "pending"

\* C10: the component starts loading with loadStats waiting; it is loading
\* while the Promise.all promise is pending, hence as long as a fetch is
\* pending and none has been rejected; once every fetch has settled it
\* leaves loading, and it never loads again
C10_LoadLifecycle ==
    /\ loading = TRUE
    /\ pc = "await"
    /\ allState = "pending"
    /\ [](allState = "pending" => loading)
    /\ []((~AllSettled /\ \A f \in Fetches : fetchState[f] # "rejected") => loading)
    /\ [][~loading => ~loading']_vars
    /\ AllSettled ~> ~loading

\* loading has ended by a rejection while another fetch is still pending
C10_Witness ==
    /\ ~loading
    /\ pc = "done"
    /\ allState = "rejected"
    /\ ~AllSettled

=============================================================================
